---- MODULE Spec2Model ----
(***************************************************************************)
(* Model of corral-validate (src/validation/rust/src/lib.rs): header token *)
(* extraction, the plan hierarchy, session validation against the shared   *)
(* SQLite store, and the lifecycle of the managed auth-server subprocess.  *)
(***************************************************************************)
EXTENDS Integers, Sequences, FiniteSets, TLC

VARIABLES
    \* extract_token
    headers,        \* the header list handed to extract_token
    extracted,      \* [done, result]: whether it was called, and its result
    \* require_plan
    planUser,       \* user.plan
    planReq,        \* the required plan
    planResult,     \* [done, value]: whether require_plan was called, and its result
    \* validate_session
    dbState,        \* "ok" | "unreachable" | "no_session_table" | "no_user_table"
    sessionRow,     \* the session row whose token is TokKnown, or NoRow
    userRow,        \* the user row whose id is "u1", or NoRow
    now,            \* chrono::Utc::now(), in clock units
    calls,          \* the last two validate_session calls: [token, at, companion, result]
    \* companion process
    validator,      \* "unbuilt" | "build_failed" | "alive" | "dropping" | "dropped"
    auth_child,     \* Option<Child>: 0 is None, else the tracked pid
    lock,           \* holder of the auth_child mutex, or NoThread
    pc,             \* each thread's position
    procs,          \* pid -> "unspawned" | "running" | "exited"
    sigterms,       \* pid -> SIGTERMs sent by libc::kill
    kills,          \* pid -> child.kill() calls
    elapsed,        \* thread -> polls slept in the current wait loop
    listeners,      \* pids whose stdout/stderr reader threads were started
    child,          \* start_auth_server's local `child`: the pid just spawned, or 0
    health,         \* what the last start_auth_server call logged
    env             \* environment: CORRAL_AUTH_SERVER, the script's place, node

extractVars == <<headers, extracted>>
planVars == <<planUser, planReq, planResult>>
validateVars == <<dbState, sessionRow, userRow, now, calls>>
procVars == <<validator, auth_child, lock, pc, procs, sigterms, kills, elapsed,
              listeners, child, health, env>>
vars == <<headers, extracted, planUser, planReq, planResult,
          dbState, sessionRow, userRow, now, calls,
          validator, auth_child, lock, pc, procs, sigterms, kills, elapsed,
          listeners, child, health, env>>

-----------------------------------------------------------------------------
(* Option<String> and text.  A string is a sequence of lexical atoms: the  *)
(* separators ";" and " " and "=", and words.                              *)

None == [some |-> FALSE, val |-> <<>>]
Some(s) == [some |-> TRUE, val |-> s]

COOKIE_NAME == "better-auth.session_token"
CookiePrefix == <<COOKIE_NAME, "=">>
BearerPrefix == <<"Bearer", " ">>

\* str::strip_prefix
StripPrefix(s, p) ==
    IF Len(s) >= Len(p) /\ SubSeq(s, 1, Len(p)) = p
    THEN Some(SubSeq(s, Len(p) + 1, Len(s)))
    ELSE None

\* str::trim
RECURSIVE TrimStart(_)
TrimStart(s) ==
    IF s # <<>> /\ Head(s) = " " THEN TrimStart(Tail(s)) ELSE s
RECURSIVE TrimEnd(_)
TrimEnd(s) ==
    IF s # <<>> /\ s[Len(s)] = " " THEN TrimEnd(SubSeq(s, 1, Len(s) - 1)) ELSE s
Trim(s) == TrimEnd(TrimStart(s))

\* str::split(';'): the segments between the separators, in order
RECURSIVE SplitFrom(_, _, _)
SplitFrom(s, i, cur) ==
    IF i > Len(s) THEN <<cur>>
    ELSE IF s[i] = ";" THEN <<cur>> \o SplitFrom(s, i + 1, <<>>)
    ELSE SplitFrom(s, i + 1, Append(cur, s[i]))
Split(s) == SplitFrom(s, 1, <<>>)

\* str::eq_ignore_ascii_case against a lower-case literal
AsciiLower(k) ==
    CASE k \in {"Cookie", "cookie", "COOKIE"} -> "cookie"
      [] k \in {"Authorization", "authorization"} -> "authorization"
      [] OTHER -> k
EqIgnoreAsciiCase(k, lit) == AsciiLower(k) = lit

-----------------------------------------------------------------------------
(* extract_token                                                             *)

\* the inner loop over the segments of one cookie value
RECURSIVE CookieScanParts_last(_, _)
CookieScanParts_last(parts, i) ==
    IF i > Len(parts) THEN None
    ELSE LET later == CookieScanParts_last(parts, i + 1)
         IN  IF later.some THEN later
             ELSE StripPrefix(Trim(parts[i]), CookiePrefix)
RECURSIVE CookieScanParts(_, _)
CookieScanParts(parts, i) ==
    IF i > Len(parts) THEN None
    ELSE LET val == StripPrefix(Trim(parts[i]), CookiePrefix)
         IN  IF val.some THEN val ELSE CookieScanParts(parts, i + 1)
CookieToken(v) == CookieScanParts(Split(v), 1)

BearerToken(v) == StripPrefix(v, BearerPrefix)

\* one iteration of the loop over the headers: the cookie test, then the
\* authorization test, on the same header
HeaderStep(h) ==
    LET c == IF EqIgnoreAsciiCase(h[1], "cookie") THEN CookieToken(h[2]) ELSE None
        a == IF EqIgnoreAsciiCase(h[1], "authorization") THEN BearerToken(h[2]) ELSE None
    IN  IF c.some THEN c ELSE a

RECURSIVE ExtractFrom(_, _)
ExtractFrom(hs, i) ==
    IF i > Len(hs) THEN None
    ELSE LET r == HeaderStep(hs[i])
         IN  IF r.some THEN r ELSE ExtractFrom(hs, i + 1)
extract_token(hs) == ExtractFrom(hs, 1)

-----------------------------------------------------------------------------
(* plan_levels and require_plan                                              *)

PlanKnown == {"free", "pro", "team", "enterprise"}
plan_levels(p) ==
    CASE p = "free" -> 0
      [] p = "pro" -> 1
      [] p = "team" -> 2
      [] p = "enterprise" -> 3

\* levels.get(name).unwrap_or(&0)
LevelOrZero(p) == IF p \in PlanKnown THEN plan_levels(p) ELSE 0

require_plan_strict(userPlan, plan) == LevelOrZero(userPlan) > LevelOrZero(plan)
require_plan(userPlan, plan) == LevelOrZero(userPlan) >= LevelOrZero(plan)

-----------------------------------------------------------------------------
(* The shared store.  A column holds a typed SQLite value.  A timestamp    *)
(* text is written as: date and hour t, the date/time separator, and the   *)
(* zone suffix ("" when it has none); anything else is junk text.          *)

MaxT == 2           \* latest hour written in an expiry text
MaxNow == 2         \* latest clock reading

TokKnown == "tok_abc"       \* the token the session row (if any) is keyed by
TokOther == "tok_zzz"       \* a token no session row is keyed by
Tokens == {TokKnown, TokOther}

Zones == {"Z", "+01:00", "-01:00", ""}
Stamp(sep, t, zone) == [shape |-> "datetime", sep |-> sep, t |-> t, zone |-> zone]
JunkStamp == [shape |-> "junk", sep |-> "", t |-> 0, zone |-> ""]
ExpiryTexts ==
    {Stamp("T", t, z) : t \in 0..MaxT, z \in Zones}
        \cup {Stamp(" ", t, "") : t \in 0..MaxT}
        \cup {JunkStamp}

\* typed column values
Null == [type |-> "null", v |-> ""]
Text(s) == [type |-> "text", v |-> s]
Integer(s) == [type |-> "integer", v |-> s]
ExpNull == [type |-> "null", v |-> JunkStamp]
ExpText(e) == [type |-> "text", v |-> e]

NoSession == [present |-> FALSE, userId |-> "", expiresAt |-> ExpNull]
SessionRows ==
    {NoSession} \cup
    {[present |-> TRUE, userId |-> u, expiresAt |-> e] :
        u \in {"u1", "u2"},
        e \in {ExpNull} \cup {ExpText(x) : x \in ExpiryTexts}}

NoUserRow == [present |-> FALSE, id |-> Null, email |-> Null, name |-> Null,
              plan |-> Null, role |-> Null, emailVerified |-> Null,
              createdAt |-> Null]
UserRows ==
    {NoUserRow} \cup
    {[present |-> TRUE, id |-> Text("u1"), email |-> e, name |-> n, plan |-> p,
      role |-> r, emailVerified |-> ev, createdAt |-> Text("2024-05-01")] :
        e \in {Text("a@x.io"), Null},
        n \in {Text("Ann"), Null},
        p \in {Text("pro"), Null, Integer("7")},
        r \in {Text("admin"), Null, Integer("7")},
        ev \in {Integer("1"), Integer("0"), Null, Text("yes")}}

\* rusqlite results
Ok(v) == [ok |-> TRUE, v |-> v]
Err == [ok |-> FALSE]

\* row.get::<_, String>: text only
GetString(col) == IF col.type = "text" THEN Ok(col.v) ELSE Err
\* row.get::<_, Option<String>>: NULL is None, text is Some, else an error
NoneStr == [some |-> FALSE, val |-> ""]
SomeStr(s) == [some |-> TRUE, val |-> s]
GetOptString(col) ==
    CASE col.type = "null" -> Ok(NoneStr)
      [] col.type = "text" -> Ok(SomeStr(col.v))
      [] OTHER -> Err
\* row.get::<_, bool>: an integer, true when it is not 0
GetBool(col) == IF col.type = "integer" THEN Ok(col.v # "0") ELSE Err
UnwrapOr(r, d) == IF r.ok THEN r.v ELSE d
OptUnwrapOr(o, d) == IF o.some THEN o.val ELSE d

-----------------------------------------------------------------------------
(* Expiry parsing (chrono)                                                   *)

ZoneOffset(z) == CASE z = "+01:00" -> 1 [] z = "-01:00" -> -1 [] OTHER -> 0

\* chrono::DateTime::parse_from_rfc3339: "T" separator and a zone suffix;
\* the value is the instant, local time less the offset
parse_from_rfc3339(e) ==
    IF e.shape = "datetime" /\ e.sep = "T" /\ e.zone # ""
    THEN Ok(e.t - ZoneOffset(e.zone))
    ELSE Err
\* chrono::NaiveDateTime::parse_from_str(_, "%Y-%m-%d %H:%M:%S"), and_utc()
parse_naive(e) ==
    IF e.shape = "datetime" /\ e.sep = " " /\ e.zone = ""
    THEN Ok(e.t)
    ELSE Err

\* the `expired` flag of validate_session
IsExpired_open(e, clock) ==
    LET a == parse_from_rfc3339(e)
        b == parse_naive(e)
    IN  IF a.ok THEN a.v < clock
        ELSE IF b.ok THEN b.v < clock
        ELSE FALSE
IsExpired_rfc_only(e, clock) ==
    LET a == parse_from_rfc3339(e)
    IN  IF a.ok THEN a.v < clock ELSE FALSE
IsExpired(e, clock) ==
    LET a == parse_from_rfc3339(e)
        b == parse_naive(e)
    IN  IF a.ok THEN a.v < clock
        ELSE IF b.ok THEN b.v < clock
        ELSE TRUE

-----------------------------------------------------------------------------
(* validate_session and get_user_by_id                                       *)

NoUser == [id |-> "", email |-> "", name |-> NoneStr, plan |-> "", role |-> "",
           email_verified |-> FALSE, created_at |-> ""]
Absent == [kind |-> "absent", user |-> NoUser]         \* Ok(None)
Failure == [kind |-> "error", user |-> NoUser]         \* Err(e)
Found(u) == [kind |-> "user", user |-> u]              \* Ok(Some(u))

\* the row-mapping closure of get_user_by_id: every `?` returns the error
HydrateUser_swapped(row) ==
    LET id == GetString(row.id)
        email == GetString(row.email)
        name == GetOptString(row.name)
        plan == GetOptString(row.plan)
        role == GetOptString(row.role)
        created == GetString(row.createdAt)
    IN  IF id.ok /\ email.ok /\ name.ok /\ plan.ok /\ role.ok /\ created.ok
        THEN Ok([id |-> id.v, email |-> email.v, name |-> name.v,
                 plan |-> OptUnwrapOr(plan.v, "user"),
                 role |-> OptUnwrapOr(role.v, "free"),
                 email_verified |-> UnwrapOr(GetBool(row.emailVerified), FALSE),
                 created_at |-> created.v])
        ELSE Err
HydrateUser(row) ==
    LET id == GetString(row.id)
        email == GetString(row.email)
        name == GetOptString(row.name)
        plan == GetOptString(row.plan)
        role == GetOptString(row.role)
        created == GetString(row.createdAt)
    IN  IF id.ok /\ email.ok /\ name.ok /\ plan.ok /\ role.ok /\ created.ok
        THEN Ok([id |-> id.v, email |-> email.v, name |-> name.v,
                 plan |-> OptUnwrapOr(plan.v, "free"),
                 role |-> OptUnwrapOr(role.v, "user"),
                 email_verified |-> UnwrapOr(GetBool(row.emailVerified), FALSE),
                 created_at |-> created.v])
        ELSE Err

get_user_by_id_norow_err(db, urow, user_id) ==
    IF db = "no_user_table" THEN Failure
    ELSE IF ~(urow.present /\ urow.id.v = user_id) THEN Failure
    ELSE LET u == HydrateUser(urow)
         IN  IF u.ok THEN Found(u.v) ELSE Failure
get_user_by_id(db, urow, user_id) ==
    IF db = "no_user_table" THEN Failure                    \* prepare fails
    ELSE IF ~(urow.present /\ urow.id.v = user_id) THEN Absent   \* QueryReturnedNoRows
    ELSE LET u == HydrateUser(urow)
         IN  IF u.ok THEN Found(u.v) ELSE Failure

validate_session_gated(db, srow, urow, clock, token) ==
    IF health \in {"no_script", "no_node", "spawn_failed", "unhealthy"} THEN Failure
    ELSE IF db = "unreachable" THEN Failure
    ELSE IF db = "no_session_table" THEN Failure
    ELSE IF ~(srow.present /\ token = TokKnown) THEN Absent
    ELSE IF srow.expiresAt.type # "text" THEN Failure
    ELSE IF IsExpired(srow.expiresAt.v, clock) THEN Absent
    ELSE get_user_by_id(db, urow, srow.userId)
validate_session_norow_err(db, srow, urow, clock, token) ==
    IF db = "unreachable" THEN Failure
    ELSE IF db = "no_session_table" THEN Failure
    ELSE IF ~(srow.present /\ token = TokKnown) THEN Failure
    ELSE IF srow.expiresAt.type # "text" THEN Failure
    ELSE IF IsExpired(srow.expiresAt.v, clock) THEN Absent
    ELSE get_user_by_id(db, urow, srow.userId)
validate_session(db, srow, urow, clock, token) ==
    IF db = "unreachable" THEN Failure                      \* self.conn()?
    ELSE IF db = "no_session_table" THEN Failure            \* conn.prepare(..)?
    ELSE IF ~(srow.present /\ token = TokKnown) THEN Absent \* QueryReturnedNoRows
    ELSE IF srow.expiresAt.type # "text" THEN Failure       \* row.get::<_, String>(1)?
    ELSE IF IsExpired(srow.expiresAt.v, clock) THEN Absent
    ELSE get_user_by_id(db, urow, srow.userId)

-----------------------------------------------------------------------------
(* Inputs and calls of the pure operations                                   *)

MaxSegs == 2        \* most segments in a cookie value
MaxHeaders == 2     \* most headers in a request

SegA == <<COOKIE_NAME, "=", "tok_abc">>
SegB == <<COOKIE_NAME, "=", "tok_def">>
SegSecure == <<"__Secure-", COOKIE_NAME, "=", "tok_sec">>
Segments == {SegA, SegB, SegSecure}

\* the serialized cookie values: segments joined by "; "
RECURSIVE CookieValuesOf(_)
CookieValuesOf(n) ==
    IF n = 1 THEN Segments
    ELSE {v \o <<";", " ">> \o g : v \in CookieValuesOf(n - 1), g \in Segments}
CookieValues == UNION {CookieValuesOf(n) : n \in 1..MaxSegs}
AuthValues == {<<"Bearer", " ", "tok_xyz">>, <<"bearer", " ", "tok_xyz">>,
               <<"Basic", " ", "dXNlcg">>}
HeaderPairs ==
    ({"Cookie", "cookie"} \X CookieValues)
        \cup ({"Authorization", "authorization"} \X AuthValues)
        \cup ({"X-Other"} \X {SegA, <<"Bearer", " ", "tok_xyz">>})
HeaderLists == UNION {[1..n -> HeaderPairs] : n \in 0..MaxHeaders}

ExtractInit ==
    /\ headers \in HeaderLists
    /\ extracted = [done |-> FALSE, result |-> None]
ExtractToken ==
    /\ ~extracted.done
    /\ extracted' = [done |-> TRUE, result |-> extract_token(headers)]
    /\ UNCHANGED <<headers, planVars, validateVars, procVars>>

PlanNames == {"free", "pro", "team", "enterprise", "gold", "", "Pro", "FREE"}
PlanInit ==
    /\ planUser \in PlanNames
    /\ planReq \in PlanNames
    /\ planResult = [done |-> FALSE, value |-> FALSE]
RequirePlan ==
    /\ ~planResult.done
    /\ planResult' = [done |-> TRUE, value |-> require_plan(planUser, planReq)]
    /\ UNCHANGED <<planUser, planReq, extractVars, validateVars, procVars>>

\* a missing table holds no rows, and an unreachable store shows none
ValidateInit ==
    /\ dbState \in {"ok", "unreachable", "no_session_table", "no_user_table"}
    /\ sessionRow \in SessionRows
    /\ userRow \in UserRows
    /\ dbState \in {"unreachable", "no_session_table"} => sessionRow = NoSession
    /\ dbState # "ok" => userRow = NoUserRow
    /\ now = 0
    /\ calls = <<>>
ValidateSession(token) ==
    LET call == [token |-> token, at |-> now, companion |-> health,
                 result |-> validate_session(dbState, sessionRow, userRow, now, token)]
    IN  /\ calls' = IF Len(calls) = 2 THEN <<calls[2], call>> ELSE Append(calls, call)
        /\ UNCHANGED <<dbState, sessionRow, userRow, now, extractVars, planVars, procVars>>
\* the clock advances
Tick ==
    /\ now < MaxNow
    /\ now' = now + 1
    /\ UNCHANGED <<dbState, sessionRow, userRow, calls, extractVars, planVars, procVars>>

-----------------------------------------------------------------------------
(* The companion process                                                     *)

MaxSpawns == 2      \* most processes spawned in a run
NumWorkers == 1     \* threads sharing &validator besides the owner
GracePolls == 1     \* try_wait polls that fit in the 3 s grace period
HealthPolls == 1    \* health requests that fit in the 5 s deadline
WalkLevels == 10    \* directories find_auth_server looks in

Owner == 0                          \* the thread that owns the validator
Threads == 0..NumWorkers
NoThread == -1
Pids == 1..MaxSpawns
NoChild == 0                        \* Option<Child>::None

StartPcs == {"start_node", "start_spawn", "start_store", "start_health"}
StopPcs == {"stop_lock", "stop_check", "stop_poll", "stop_clear"}

\* the environment a start sees: CORRAL_AUTH_SERVER ("unset", or naming a
\* "file", or naming something "missing"), the nearest directory level above
\* the store that holds server/auth.js (-1: none), the number of directories
\* above the store's own, and whether node runs
Envs(levels, depths) ==
    [override : {"unset", "file", "missing"}, scriptLevel : levels,
     depth : depths, nodeOk : BOOLEAN]
ProcEnvs == Envs({-1, 0}, {1})

NoPath == [some |-> FALSE, val |-> "", level |-> -1]
\* the upward walk: `for _ in 0..10`, one directory per iteration
RECURSIVE WalkFrom(_, _)
WalkFrom(e, i) ==
    IF i >= WalkLevels THEN NoPath
    ELSE IF e.scriptLevel = i
         THEN [some |-> TRUE, val |-> "server/auth.js", level |-> i]
    ELSE IF i >= e.depth THEN NoPath             \* dir.pop() fails at the root
    ELSE WalkFrom(e, i + 1)
find_auth_server(e) ==
    IF e.override # "unset"
    THEN IF e.override = "file"
         THEN [some |-> TRUE, val |-> "CORRAL_AUTH_SERVER", level |-> -1]
         ELSE NoPath
    ELSE WalkFrom(e, 0)

OthersIdle(t) == \A w \in Threads \ {t} : pc[w] = "idle"

ProcFresh ==
    /\ auth_child = NoChild
    /\ lock = NoThread
    /\ pc = [t \in Threads |-> "idle"]
    /\ procs = [p \in Pids |-> "unspawned"]
    /\ sigterms = [p \in Pids |-> 0]
    /\ kills = [p \in Pids |-> 0]
    /\ elapsed = [t \in Threads |-> 0]
    /\ listeners = {}
    /\ child = NoChild
    /\ health = "not_started"
    /\ env \in ProcEnvs
ProcInit == validator = "alive" /\ ProcFresh

\* start_auth_server(&mut self): path resolution
StartFind ==
    /\ validator = "alive" /\ pc[Owner] = "idle" /\ OthersIdle(Owner)
    /\ IF find_auth_server(env).some
       THEN /\ pc' = [pc EXCEPT ![Owner] = "start_node"]
            /\ health' = "starting"
       ELSE /\ health' = "no_script"
            /\ UNCHANGED pc
    /\ UNCHANGED <<validator, auth_child, lock, procs, sigterms, kills, elapsed,
                   listeners, child, env, extractVars, planVars, validateVars>>

\* `node --version`
StartNode ==
    /\ pc[Owner] = "start_node"
    /\ IF env.nodeOk
       THEN /\ pc' = [pc EXCEPT ![Owner] = "start_spawn"]
            /\ UNCHANGED health
       ELSE /\ pc' = [pc EXCEPT ![Owner] = "idle"]
            /\ health' = "no_node"
    /\ UNCHANGED <<validator, auth_child, lock, procs, sigterms, kills, elapsed,
                   listeners, child, env, extractVars, planVars, validateVars>>

\* Command::spawn() fails
StartSpawnFail_clears ==
    /\ pc[Owner] = "start_spawn"
    /\ pc' = [pc EXCEPT ![Owner] = "idle"]
    /\ health' = "spawn_failed"
    /\ auth_child' = NoChild
    /\ UNCHANGED <<validator, lock, procs, sigterms, kills, elapsed,
                   listeners, child, env, extractVars, planVars, validateVars>>
StartSpawnFail ==
    /\ pc[Owner] = "start_spawn"
    /\ pc' = [pc EXCEPT ![Owner] = "idle"]
    /\ health' = "spawn_failed"
    /\ UNCHANGED <<validator, auth_child, lock, procs, sigterms, kills, elapsed,
                   listeners, child, env, extractVars, planVars, validateVars>>

\* Command::spawn() succeeds; the two reader threads take stdout and stderr
StartSpawn ==
    /\ pc[Owner] = "start_spawn"
    /\ \E p \in Pids :
        /\ procs[p] = "unspawned"
        /\ \A q \in Pids : q < p => procs[q] # "unspawned"
        /\ procs' = [procs EXCEPT ![p] = "running"]
        /\ child' = p
        /\ listeners' = listeners \cup {p}
    /\ pc' = [pc EXCEPT ![Owner] = "start_store"]
    /\ UNCHANGED <<validator, auth_child, lock, sigterms, kills, elapsed,
                   health, env, extractVars, planVars, validateVars>>

\* *self.auth_child.lock().unwrap() = Some(child): the handle held before is
\* dropped, which neither signals nor waits for its process
StoreChild(prev, c) == c
StartStore ==
    /\ pc[Owner] = "start_store"
    /\ lock = NoThread
    /\ auth_child' = StoreChild(auth_child, child)
    /\ child' = NoChild
    /\ elapsed' = [elapsed EXCEPT ![Owner] = 0]
    /\ pc' = [pc EXCEPT ![Owner] = "start_health"]
    /\ UNCHANGED <<validator, lock, procs, sigterms, kills, listeners,
                   health, env, extractVars, planVars, validateVars>>

\* one round of the health loop: the deadline, the request, the sleep
StartHealth_retract ==
    /\ pc[Owner] = "start_health"
    /\ \/ /\ elapsed[Owner] < HealthPolls
          /\ \E p \in Pids : procs[p] = "running"
          /\ health' = "healthy"
          /\ pc' = [pc EXCEPT ![Owner] = "idle"]
          /\ elapsed' = [elapsed EXCEPT ![Owner] = 0]
          /\ UNCHANGED auth_child
       \/ /\ elapsed[Owner] < HealthPolls
          /\ elapsed' = [elapsed EXCEPT ![Owner] = @ + 1]
          /\ UNCHANGED <<health, pc, auth_child>>
       \/ /\ elapsed[Owner] >= HealthPolls
          /\ health' = "unhealthy"
          /\ pc' = [pc EXCEPT ![Owner] = "idle"]
          /\ elapsed' = [elapsed EXCEPT ![Owner] = 0]
          /\ auth_child' = NoChild
    /\ UNCHANGED <<validator, lock, procs, sigterms, kills,
                   listeners, child, env, extractVars, planVars, validateVars>>
StartHealth ==
    /\ pc[Owner] = "start_health"
    /\ \/ /\ elapsed[Owner] < HealthPolls              \* a 200 response
          /\ \E p \in Pids : procs[p] = "running"
          /\ health' = "healthy"
          /\ pc' = [pc EXCEPT ![Owner] = "idle"]
          /\ elapsed' = [elapsed EXCEPT ![Owner] = 0]
       \/ /\ elapsed[Owner] < HealthPolls              \* no 200: sleep 100 ms
          /\ elapsed' = [elapsed EXCEPT ![Owner] = @ + 1]
          /\ UNCHANGED <<health, pc>>
       \/ /\ elapsed[Owner] >= HealthPolls             \* the deadline passed
          /\ health' = "unhealthy"
          /\ pc' = [pc EXCEPT ![Owner] = "idle"]
          /\ elapsed' = [elapsed EXCEPT ![Owner] = 0]
    /\ UNCHANGED <<validator, auth_child, lock, procs, sigterms, kills,
                   listeners, child, env, extractVars, planVars, validateVars>>

\* a thread calls stop_auth_server(&self) and waits for the mutex
StopCall(t) ==
    /\ validator = "alive" /\ pc[t] = "idle"
    /\ pc[Owner] \notin StartPcs
    /\ pc' = [pc EXCEPT ![t] = "stop_lock"]
    /\ UNCHANGED <<validator, auth_child, lock, procs, sigterms, kills, elapsed,
                   listeners, child, health, env, extractVars, planVars,
                   validateVars>>

\* Drop for CorralValidator: no other borrow is live; it calls stop_auth_server
Drop ==
    /\ validator = "alive" /\ pc[Owner] = "idle" /\ OthersIdle(Owner)
    /\ validator' = "dropping"
    /\ pc' = [pc EXCEPT ![Owner] = "stop_lock"]
    /\ UNCHANGED <<auth_child, lock, procs, sigterms, kills, elapsed,
                   listeners, child, health, env, extractVars, planVars,
                   validateVars>>

\* let mut guard = self.auth_child.lock().unwrap()
StopLock_nolock(t) ==
    /\ pc[t] = "stop_lock"
    /\ lock' = t
    /\ pc' = [pc EXCEPT ![t] = "stop_check"]
    /\ UNCHANGED <<validator, auth_child, procs, sigterms, kills, elapsed,
                   listeners, child, health, env, extractVars, planVars,
                   validateVars>>
StopLock(t) ==
    /\ pc[t] = "stop_lock"
    /\ lock = NoThread
    /\ lock' = t
    /\ pc' = [pc EXCEPT ![t] = "stop_check"]
    /\ UNCHANGED <<validator, auth_child, procs, sigterms, kills, elapsed,
                   listeners, child, health, env, extractVars, planVars,
                   validateVars>>

\* if let Some(ref mut child) = *guard: SIGTERM, and the wait loop begins
StopCheck(t) ==
    /\ pc[t] = "stop_check"
    /\ IF auth_child = NoChild
       THEN /\ pc' = [pc EXCEPT ![t] = "stop_clear"]
            /\ UNCHANGED <<sigterms, elapsed>>
       ELSE /\ sigterms' = [sigterms EXCEPT ![auth_child] = @ + 1]
            /\ elapsed' = [elapsed EXCEPT ![t] = 0]
            /\ pc' = [pc EXCEPT ![t] = "stop_poll"]
    /\ UNCHANGED <<validator, auth_child, lock, procs, kills, listeners, child,
                   health, env, extractVars, planVars, validateVars>>

\* one round of the wait loop: try_wait, else the 3 s test, else sleep 50 ms
StopPoll_eager(t) ==
    /\ pc[t] = "stop_poll"
    /\ IF procs[auth_child] = "exited"
       THEN /\ pc' = [pc EXCEPT ![t] = "stop_clear"]
            /\ elapsed' = [elapsed EXCEPT ![t] = 0]
            /\ UNCHANGED <<kills, procs>>
       ELSE /\ kills' = [kills EXCEPT ![auth_child] = @ + 1]
            /\ procs' = [procs EXCEPT ![auth_child] = "exited"]
            /\ pc' = [pc EXCEPT ![t] = "stop_clear"]
            /\ elapsed' = [elapsed EXCEPT ![t] = 0]
    /\ UNCHANGED <<validator, auth_child, lock, sigterms, listeners, child,
                   health, env, extractVars, planVars, validateVars>>
StopPoll(t) ==
    /\ pc[t] = "stop_poll"
    /\ IF procs[auth_child] = "exited"
       THEN /\ pc' = [pc EXCEPT ![t] = "stop_clear"]
            /\ elapsed' = [elapsed EXCEPT ![t] = 0]
            /\ UNCHANGED <<kills, procs>>
       ELSE IF elapsed[t] > GracePolls
       THEN /\ kills' = [kills EXCEPT ![auth_child] = @ + 1]     \* child.kill()
            /\ procs' = [procs EXCEPT ![auth_child] = "exited"]  \* child.wait()
            /\ pc' = [pc EXCEPT ![t] = "stop_clear"]
            /\ elapsed' = [elapsed EXCEPT ![t] = 0]
       ELSE /\ elapsed' = [elapsed EXCEPT ![t] = @ + 1]
            /\ UNCHANGED <<kills, procs, pc>>
    /\ UNCHANGED <<validator, auth_child, lock, sigterms, listeners, child,
                   health, env, extractVars, planVars, validateVars>>

\* *guard = None, and the guard goes out of scope
StopClear_keep(t) ==
    /\ pc[t] = "stop_clear"
    /\ lock' = NoThread
    /\ IF validator = "dropping"
       THEN /\ validator' = "dropped"
            /\ pc' = [pc EXCEPT ![t] = "done"]
       ELSE /\ pc' = [pc EXCEPT ![t] = "idle"]
            /\ UNCHANGED validator
    /\ UNCHANGED <<auth_child, procs, sigterms, kills, elapsed, listeners, child,
                   health, env, extractVars, planVars, validateVars>>
StopClear(t) ==
    /\ pc[t] = "stop_clear"
    /\ auth_child' = NoChild
    /\ lock' = NoThread
    /\ IF validator = "dropping"
       THEN /\ validator' = "dropped"
            /\ pc' = [pc EXCEPT ![t] = "done"]
       ELSE /\ pc' = [pc EXCEPT ![t] = "idle"]
            /\ UNCHANGED validator
    /\ UNCHANGED <<procs, sigterms, kills, elapsed, listeners, child, health,
                   env, extractVars, planVars, validateVars>>

\* a spawned process ends by itself (it crashed, or it handled SIGTERM)
ProcExit(p) ==
    /\ procs[p] = "running"
    /\ procs' = [procs EXCEPT ![p] = "exited"]
    /\ UNCHANGED <<validator, auth_child, lock, pc, sigterms, kills, elapsed,
                   listeners, child, health, env, extractVars, planVars,
                   validateVars>>

-----------------------------------------------------------------------------
(* Specifications                                                            *)

ExtractIdle == headers = <<>> /\ extracted = [done |-> FALSE, result |-> None]
PlanIdle == planUser = "free" /\ planReq = "free"
            /\ planResult = [done |-> FALSE, value |-> FALSE]
ValidateIdle == dbState = "ok" /\ sessionRow = NoSession /\ userRow = NoUserRow
                /\ now = 0 /\ calls = <<>>
ProcIdle == ProcInit /\ env = [override |-> "unset", scriptLevel |-> -1,
                               depth |-> 1, nodeOk |-> FALSE]

\* the companion process lifecycle
Init == ProcInit /\ ExtractIdle /\ PlanIdle /\ ValidateIdle
Next ==
    \/ StartFind \/ StartNode \/ StartSpawnFail \/ StartSpawn \/ StartStore
    \/ StartHealth \/ Drop
    \/ \E t \in Threads : StopCall(t) \/ StopLock(t) \/ StopCheck(t)
                          \/ StopPoll(t) \/ StopClear(t)
    \/ \E p \in Pids : ProcExit(p)
Spec == Init /\ [][Next]_vars

\* the lifecycle with its scheduling: a thread inside stop_auth_server keeps
\* running, and a thread waiting for the mutex gets it once it is released
\* often enough
SpecFair ==
    /\ Init /\ [][Next]_vars
    /\ \A t \in Threads :
          /\ SF_vars(StopLock(t))
          /\ WF_vars(StopCheck(t) \/ StopPoll(t) \/ StopClear(t))

\* extract_token on every request
InitExtract == ExtractInit /\ PlanIdle /\ ValidateIdle /\ ProcIdle
NextExtract == ExtractToken
SpecExtract == InitExtract /\ [][NextExtract]_vars

\* require_plan on every pair of plan names
InitPlan == PlanInit /\ ExtractIdle /\ ValidateIdle /\ ProcIdle
NextPlan == RequirePlan
SpecPlan == InitPlan /\ [][NextPlan]_vars

\* validate_session on every store
InitValidate == ValidateInit /\ ExtractIdle /\ PlanIdle /\ ProcIdle
NextValidate == Tick \/ \E token \in Tokens : ValidateSession(token)
SpecValidate == InitValidate /\ [][NextValidate]_vars

-----------------------------------------------------------------------------
(* Properties                                                                *)

IsCookieHeader(h) == EqIgnoreAsciiCase(h[1], "cookie") /\ CookieToken(h[2]).some
IsBearerHeader(h) == EqIgnoreAsciiCase(h[1], "authorization") /\ BearerToken(h[2]).some
HasCookieToken(hs) == \E i \in 1..Len(hs) : IsCookieHeader(hs[i])
HasBearerToken(hs) == \E i \in 1..Len(hs) : IsBearerHeader(hs[i])
\* the token of the first cookie header that carries one
FirstCookieToken(hs) ==
    LET i == CHOOSE j \in 1..Len(hs) :
                 /\ IsCookieHeader(hs[j])
                 /\ \A k \in 1..(j - 1) : ~IsCookieHeader(hs[k])
    IN  CookieToken(hs[i][2])

\* C1: whenever the headers hold both a cookie header with a session-token
\* segment and an authorization header with a Bearer value, in either order,
\* extract_token returns the cookie's token.
C1_CookiePriority ==
    (extracted.done /\ HasCookieToken(headers) /\ HasBearerToken(headers))
        => extracted.result = FirstCookieToken(headers)

\* C2: once the validator is dropped, no process it spawned is running,
\* whatever start and stop calls came before the drop.
C2_NoneRunningAfterDrop ==
    validator = "dropped" => \A p \in Pids : procs[p] # "running"

\* the calls made so far, and what each one met in the store
CallIdx == 1..Len(calls)
SessionMatched(c) == sessionRow.present /\ c.token = TokKnown
ExpiryIsText == sessionRow.expiresAt.type = "text"
ExpiryText == sessionRow.expiresAt.v
Parses(e) == parse_from_rfc3339(e).ok \/ parse_naive(e).ok
Instant(e) == IF parse_from_rfc3339(e).ok THEN parse_from_rfc3339(e).v
              ELSE parse_naive(e).v
UserMatched == userRow.present /\ userRow.id.v = sessionRow.userId
\* the user row holds what the schema says: text id, email and creation
\* time, and text or NULL name, plan and role
UserRowConforms ==
    /\ userRow.id.type = "text" /\ userRow.email.type = "text"
    /\ userRow.createdAt.type = "text"
    /\ userRow.name.type \in {"text", "null"}
    /\ userRow.plan.type \in {"text", "null"}
    /\ userRow.role.type \in {"text", "null"}

\* C3: a session whose expiry text parses under neither format is treated as
\* expired: validate_session returns absent, not a user and not an error.
C3_UnparsableExpiryAbsent ==
    \A i \in CallIdx :
        (SessionMatched(calls[i]) /\ ExpiryIsText /\ ~Parses(ExpiryText))
            => calls[i].result = Absent
C3_Witness ==
    \E i \in CallIdx :
        /\ SessionMatched(calls[i]) /\ ExpiryIsText /\ ~Parses(ExpiryText)
        /\ ExpiryText.shape = "datetime"
        /\ UserMatched /\ UserRowConforms
        /\ calls[i].result = Absent

\* C4: a session whose parsed expiry is at or before the current time,
\* the current time itself included, makes validate_session return absent
\* (in a store whose user rows hold what the schema says).
C4_AtOrBeforeNowAbsent ==
    \A i \in CallIdx :
        (SessionMatched(calls[i]) /\ ExpiryIsText /\ Parses(ExpiryText)
            /\ (userRow.present => UserRowConforms)
            /\ Instant(ExpiryText) <= calls[i].at)
            => calls[i].result = Absent

\* C5: a session whose expiry, in either accepted format, is strictly before
\* the current time makes validate_session return absent, whether or not the
\* owning user row exists.
C5_PastExpiryAbsent ==
    \A i \in CallIdx :
        (SessionMatched(calls[i]) /\ ExpiryIsText /\ Parses(ExpiryText)
            /\ Instant(ExpiryText) < calls[i].at)
            => calls[i].result = Absent
C5_Witness ==
    \E i \in CallIdx :
        /\ SessionMatched(calls[i]) /\ ExpiryIsText
        /\ parse_from_rfc3339(ExpiryText).ok /\ ExpiryText.zone = "+01:00"
        /\ Instant(ExpiryText) < calls[i].at /\ ExpiryText.t >= calls[i].at
        /\ UserMatched /\ UserRowConforms
        /\ calls[i].result = Absent

\* C6: a session whose expiry is in the future, in either accepted format,
\* and whose user row exists yields a User with the row's id, email, name and
\* creation time, the row's plan or "free" when NULL, and the row's role or
\* "user" when NULL.
C6_FutureExpiryReturnsUser ==
    \A i \in CallIdx :
        (SessionMatched(calls[i]) /\ ExpiryIsText /\ Parses(ExpiryText)
            /\ Instant(ExpiryText) > calls[i].at
            /\ UserMatched /\ UserRowConforms)
            => LET r == calls[i].result IN
               /\ r.kind = "user"
               /\ r.user.id = userRow.id.v
               /\ r.user.email = userRow.email.v
               /\ r.user.name = IF userRow.name.type = "null" THEN NoneStr
                                ELSE SomeStr(userRow.name.v)
               /\ r.user.created_at = userRow.createdAt.v
               /\ r.user.plan = IF userRow.plan.type = "null" THEN "free"
                                ELSE userRow.plan.v
               /\ r.user.role = IF userRow.role.type = "null" THEN "user"
                                ELSE userRow.role.v
C6_Witness ==
    \E i \in CallIdx :
        /\ SessionMatched(calls[i]) /\ ExpiryIsText
        /\ parse_naive(ExpiryText).ok /\ Instant(ExpiryText) > calls[i].at
        /\ UserMatched /\ UserRowConforms
        /\ userRow.plan.type = "null" /\ userRow.role.type = "text"
        /\ calls[i].result.kind = "user"
        /\ calls[i].result.user.plan = "free"

\* C7: in a reachable, well-formed store a token that matches no session row
\* gives absent, never an error; a store that cannot be opened or queried, or
\* a row that cannot be read, gives an error, which is not absent.
C7_NoRowAbsentFailureError ==
    \A i \in CallIdx :
        /\ (dbState = "ok" /\ ~SessionMatched(calls[i]))
              => calls[i].result = Absent
        /\ (dbState \in {"unreachable", "no_session_table"}
              \/ (SessionMatched(calls[i]) /\ ~ExpiryIsText))
              => (calls[i].result.kind = "error" /\ calls[i].result # Absent)
C7_Witness ==
    \E i \in CallIdx :
        /\ dbState = "ok" /\ sessionRow.present /\ userRow.present
        /\ calls[i].token = TokOther
        /\ calls[i].result = Absent

\* the three rejections: no session for the token, a session that is expired
\* (its expiry is past, or unreadable as a time), a session without its user
Rejection(c) ==
    IF ~SessionMatched(c) THEN "unknown"
    ELSE IF ~ExpiryIsText THEN "none"
    ELSE IF ~Parses(ExpiryText) \/ Instant(ExpiryText) < c.at THEN "expired"
    ELSE IF ~UserMatched THEN "orphaned"
    ELSE "none"

\* C8: any two validate_session calls that meet an unknown token, an expired
\* session or an orphaned session return the same thing, absent without an
\* error, whichever of the three each one met.
C8_RejectionsAlike ==
    \A i, j \in CallIdx :
        (dbState = "ok" /\ Rejection(calls[i]) # "none" /\ Rejection(calls[j]) # "none")
            => (calls[i].result = calls[j].result /\ calls[i].result = Absent)
C8_Witness ==
    /\ dbState = "ok" /\ Len(calls) = 2
    /\ Rejection(calls[1]) = "orphaned"
    /\ Rejection(calls[2]) = "expired"
    /\ calls[1].result = calls[2].result

\* C9: when the plan, role or email-verified column of the user row cannot be
\* read as its type (NULL or otherwise), validate_session still returns the
\* user, with "free", "user" and false in the place of what it could not read.
C9_OptionalFieldsDegrade ==
    \A i \in CallIdx :
        (SessionMatched(calls[i]) /\ ExpiryIsText /\ Parses(ExpiryText)
            /\ Instant(ExpiryText) > calls[i].at /\ UserMatched
            /\ userRow.email.type = "text" /\ userRow.createdAt.type = "text"
            /\ userRow.name.type \in {"text", "null"})
            => LET r == calls[i].result IN
               /\ r.kind = "user"
               /\ userRow.plan.type # "text" => r.user.plan = "free"
               /\ userRow.role.type # "text" => r.user.role = "user"
               /\ userRow.emailVerified.type # "integer" => ~r.user.email_verified

\* the ranks as the plan hierarchy states them
Rank(p) == CASE p = "free" -> 0 [] p = "pro" -> 1 [] p = "team" -> 2
             [] p = "enterprise" -> 3 [] OTHER -> 0

\* C10: require_plan(user, plan) is true exactly when the rank of user.plan
\* is at least the rank of plan, unknown names ranking 0: a known plan
\* satisfies itself, a higher rank satisfies a lower one and not the reverse,
\* and two unknown names satisfy each other.
C10_RequirePlanIsRankOrder ==
    planResult.done =>
        /\ planResult.value = (Rank(planUser) >= Rank(planReq))
        /\ planUser = planReq => planResult.value
        /\ (planUser \notin PlanKnown /\ planReq \notin PlanKnown) => planResult.value
        /\ Rank(planUser) < Rank(planReq) => ~planResult.value
C10_Witness ==
    /\ planResult.done
    /\ planUser = "team" /\ planReq = "enterprise"
    /\ ~planResult.value

\* a thread inside stop_auth_server that found the handle empty
InEmptyStop(t) == pc[t] \in {"stop_check", "stop_clear"} /\ lock = t
                  /\ auth_child = NoChild
StopReturns(t) == pc[t] = "stop_clear" /\ pc'[t] \in {"idle", "done"}

\* C11: every stop_auth_server call returns with the handle empty; a call that
\* finds the handle empty (a second call in a row, or a call on a validator
\* that never started a companion) sends no signal, changes no process and
\* the handle, and can always take its next step, up to its return.
C11_StopIdempotent ==
    /\ [](\A t \in Threads :
            InEmptyStop(t) => ENABLED (StopCheck(t) \/ StopClear(t)))
    /\ [][\A t \in Threads :
            /\ StopReturns(t) => auth_child' = NoChild
            /\ (InEmptyStop(t) /\ pc'[t] # pc[t]) =>
                 /\ pc[t] = "stop_check" => pc'[t] = "stop_clear"
                 /\ auth_child' = NoChild
                 /\ sigterms' = sigterms /\ kills' = kills /\ procs' = procs]_vars
\* a stop call that runs on the handle an earlier stop call emptied
C11_Witness ==
    \E t \in Threads, p \in Pids :
        /\ InEmptyStop(t) /\ pc[t] = "stop_clear"
        /\ validator = "alive"
        /\ sigterms[p] = 1 /\ procs[p] = "exited"

-----------------------------------------------------------------------------
(* CorralValidatorBuilder::build, and validation next to the companion       *)

\* the stores a validator is built on: a session of user u1 that is not
\* expired, or none; the user row, or none; or a store that does not open
LiveSession == [present |-> TRUE, userId |-> "u1",
                expiresAt |-> ExpText(Stamp("T", MaxT + 1, "Z"))]
GoodUser == [present |-> TRUE, id |-> Text("u1"), email |-> Text("a@x.io"),
             name |-> Text("Ann"), plan |-> Text("pro"), role |-> Null,
             emailVerified |-> Integer("1"), createdAt |-> Text("2024-05-01")]
BuildInit ==
    /\ validator = "unbuilt" /\ ProcFresh
    /\ dbState \in {"ok", "unreachable"}
    /\ sessionRow \in {NoSession, LiveSession}
    /\ userRow \in {NoUserRow, GoodUser}
    /\ dbState = "unreachable" => (sessionRow = NoSession /\ userRow = NoUserRow)
    /\ now = 0
    /\ calls = <<>>

\* build(): Connection::open(&self.db_path)?, then the validator value; the
\* start_auth_server call of `if self.auth_server` is the start sequence
Build ==
    /\ validator = "unbuilt"
    /\ validator' = IF dbState = "unreachable" THEN "build_failed" ELSE "alive"
    /\ UNCHANGED <<auth_child, lock, pc, procs, sigterms, kills, elapsed,
                   listeners, child, health, env, extractVars, planVars,
                   validateVars>>

\* validate_session(&self) on a built validator; no &mut borrow is live
BuildValidate(token) ==
    /\ validator = "alive" /\ pc[Owner] = "idle"
    /\ ValidateSession(token)

InitBuild == BuildInit /\ ExtractIdle /\ PlanIdle
NextBuild ==
    \/ Build
    \/ StartFind \/ StartNode \/ StartSpawnFail \/ StartSpawn \/ StartStore
    \/ StartHealth
    \/ \E p \in Pids : ProcExit(p)
    \/ \E token \in Tokens : BuildValidate(token)
SpecBuild == InitBuild /\ [][NextBuild]_vars

CompanionFailures == {"no_script", "no_node", "spawn_failed", "unhealthy"}

\* C12: build fails only when the store does not open; every outcome of the
\* start sequence leaves the validator built and the start able to go on to
\* its return; and validate_session gives, for the same store and token, what
\* it gives on a validator that never started a companion.
C12_CompanionNeverBlocks ==
    /\ validator = "build_failed" => dbState = "unreachable"
    /\ health # "not_started" => validator = "alive"
    /\ pc[Owner] \in StartPcs =>
          ENABLED (StartNode \/ StartSpawnFail \/ StartSpawn \/ StartStore
                   \/ StartHealth)
    /\ \A i, j \in CallIdx :
          (calls[i].token = calls[j].token /\ calls[i].companion = "not_started")
              => calls[j].result = calls[i].result
C12_Witness ==
    /\ Len(calls) = 2
    /\ calls[1].companion = "not_started" /\ calls[2].companion = "unhealthy"
    /\ calls[1].token = TokKnown /\ calls[2].token = TokKnown
    /\ calls[2].result.kind = "user"
    /\ \A p \in Pids : procs[p] # "running"

\* a stop_auth_server call that found a process tracked has returned
StopCompleted == \E p \in Pids : sigterms[p] >= 1 /\ auth_child # p

\* C13: Stopped is terminal: once stop_auth_server has stopped the companion,
\* nothing later, another start_auth_server call included, spawns or tracks a
\* companion process on that validator.
C13_StoppedIsTerminal ==
    StopCompleted => (auth_child = NoChild /\ child = NoChild)

\* the value of the first segment of a cookie value, in serialized order,
\* that starts with the exact prefix once trimmed
SegmentMatches(seg) == StripPrefix(Trim(seg), CookiePrefix).some
FirstSegmentToken(v) ==
    LET parts == Split(v)
        k == CHOOSE j \in 1..Len(parts) :
                 /\ SegmentMatches(parts[j])
                 /\ \A m \in 1..(j - 1) : ~SegmentMatches(parts[m])
    IN  StripPrefix(Trim(parts[k]), CookiePrefix)
YieldsToken(h) == IsCookieHeader(h) \/ IsBearerHeader(h)

\* C14: when the token comes from a cookie header, it is the value of the
\* first segment of that header that starts with
\* `better-auth.session_token=`, later segments of that name being ignored;
\* when no cookie segment and no Bearer value matches, the result is absent.
C14_FirstCookieSegment ==
    extracted.done =>
        /\ (\A i \in 1..Len(headers) : ~YieldsToken(headers[i]))
              => extracted.result = None
        /\ \A i \in 1..Len(headers) :
              (IsCookieHeader(headers[i])
                  /\ \A k \in 1..(i - 1) : ~YieldsToken(headers[k]))
                  => extracted.result = FirstSegmentToken(headers[i][2])
C14_Witness ==
    /\ extracted.done
    /\ Len(headers) >= 1
    /\ headers[1] = <<"cookie", SegB \o <<";", " ">> \o SegA>>
    /\ extracted.result = Some(<<"tok_def">>)

\* C15: stop_auth_server sends SIGTERM before it polls; the force-kill is
\* issued only by a stop that is polling a process still running after the
\* grace period, once, and ends the polling; a process that has exited is
\* never killed; and stop leaves the wait loop only with the process exited.
C15_StopEscalation ==
    /\ [](/\ \A p \in Pids : kills[p] <= 1 /\ (kills[p] >= 1 => sigterms[p] >= 1)
          /\ \A t \in Threads :
                /\ pc[t] = "stop_poll" =>
                      (auth_child # NoChild /\ sigterms[auth_child] >= 1)
                /\ (pc[t] = "stop_clear" /\ auth_child # NoChild) =>
                      procs[auth_child] = "exited")
    /\ [][\A p \in Pids :
            kills'[p] # kills[p] =>
                /\ kills'[p] = kills[p] + 1
                /\ procs[p] = "running" /\ sigterms[p] >= 1
                /\ \E t \in Threads :
                      /\ pc[t] = "stop_poll" /\ lock = t /\ auth_child = p
                      /\ elapsed[t] > GracePolls
                      /\ pc'[t] = "stop_clear"]_vars
C15_Witness ==
    \E t \in Threads :
        /\ pc[t] = "stop_clear" /\ auth_child # NoChild
        /\ kills[auth_child] = 1 /\ sigterms[auth_child] = 1
        /\ procs[auth_child] = "exited"

\* C16: start reports the script as not found only when the override does
\* not name a file and the upward walk from the store's directory (at most
\* WalkLevels directories) finds no server/auth.js either.
C16_ResolutionFallsBack ==
    health = "no_script" =>
        (env.override # "file" /\ ~WalkFrom(env, 0).some)

\* C17: the health poll ends in exactly one of healthy (a 200 response seen
\* before the deadline) or unhealthy (the deadline reached); the poll never
\* touches the handle, and it ends with the spawned process tracked; only a
\* stop that holds the lock signals a process or empties the handle.
InStop(t) == pc[t] \in {"stop_check", "stop_poll", "stop_clear"} /\ lock = t
PollEnds == pc[Owner] = "start_health" /\ pc'[Owner] # "start_health"
C17_UnhealthyKeepsSpawn ==
    /\ [](pc[Owner] = "start_health" =>
            (auth_child # NoChild /\ health = "starting"
             /\ sigterms[auth_child] = 0 /\ kills[auth_child] = 0))
    /\ [][/\ pc[Owner] = "start_health" =>
                (auth_child' = auth_child /\ sigterms' = sigterms
                 /\ kills' = kills)
          /\ PollEnds =>
                /\ pc'[Owner] = "idle"
                /\ health' \in {"healthy", "unhealthy"}
                /\ health' = "healthy" <=> elapsed[Owner] < HealthPolls
                /\ health' = "unhealthy" <=> elapsed[Owner] >= HealthPolls
                /\ procs' = procs
          /\ (sigterms' # sigterms \/ kills' # kills
              \/ (auth_child # NoChild /\ auth_child' = NoChild)) =>
                \E t \in Threads : InStop(t)]_vars
C17_Witness ==
    /\ health = "unhealthy" /\ pc[Owner] = "idle" /\ validator = "alive"
    /\ auth_child # NoChild /\ procs[auth_child] = "running"
    /\ sigterms[auth_child] = 0 /\ kills[auth_child] = 0

\* C18: the lock on the handle is held only while the handle is inspected or
\* replaced: not during the health poll of start, and not while stop waits
\* for the process to exit.
C18_LockOnlyAroundHandle ==
    \A t \in Threads : pc[t] \in {"start_health", "stop_poll"} => lock # t

\* C19: start checks the path, then node, then spawns; a start that ends at
\* one of the three leaves the handle, the processes, the listeners and the
\* health-poll clock as they were, and no store or health poll runs under a
\* failed start.
StartAborts ==
    /\ pc[Owner] \in {"idle", "start_node", "start_spawn"}
    /\ pc'[Owner] = "idle"
    /\ health' \in {"no_script", "no_node", "spawn_failed"}
    /\ (health' # health \/ pc'[Owner] # pc[Owner])
C19_AbortedStartNoTrace ==
    /\ [](/\ pc[Owner] \in StartPcs => find_auth_server(env).some
          /\ pc[Owner] \in StartPcs \ {"start_node"} => env.nodeOk
          /\ pc[Owner] \in {"start_store", "start_health"} => health = "starting")
    /\ [][StartAborts =>
            /\ auth_child' = auth_child /\ child' = child
            /\ procs' = procs /\ listeners' = listeners
            /\ elapsed' = elapsed /\ lock' = lock
            /\ sigterms' = sigterms /\ kills' = kills
            /\ health' = "no_script" => pc[Owner] = "idle"
            /\ health' = "no_node" => pc[Owner] = "start_node"
            /\ health' = "spawn_failed" => pc[Owner] = "start_spawn"]_vars
C19_Witness ==
    /\ health = "spawn_failed" /\ pc[Owner] = "idle"
    /\ auth_child # NoChild /\ procs[auth_child] = "running"
    /\ listeners = {auth_child}

\* C20: with any number of threads in stop_auth_server, a process gets
\* SIGTERM at most once and the force-kill at most once; a signalled process
\* has exited unless the signalling stop is still waiting for it; a stop
\* returns with the handle empty and the process it found exited; and every
\* call that has begun returns.
C20_ConcurrentStopsSafe ==
    /\ [](\A p \in Pids :
            /\ sigterms[p] <= 1 /\ kills[p] <= 1
            /\ sigterms[p] >= 1 =>
                  \/ procs[p] = "exited"
                  \/ \E t \in Threads :
                        pc[t] = "stop_poll" /\ lock = t /\ auth_child = p)
    /\ [][\A t \in Threads :
            StopReturns(t) =>
                /\ auth_child' = NoChild
                /\ auth_child # NoChild => procs'[auth_child] = "exited"
                /\ \A u \in Threads \ {t} : pc'[u] = pc[u]]_vars
    /\ \A t \in Threads : (pc[t] \in StopPcs) ~> (pc[t] \notin StopPcs)
C20_Witness ==
    \E t, u \in Threads :
        /\ t # u /\ validator = "alive"
        /\ pc[t] = "stop_poll" /\ lock = t /\ pc[u] = "stop_lock"
        /\ auth_child # NoChild /\ sigterms[auth_child] = 1
        /\ procs[auth_child] = "running"

====
